---- MODULE Spec2Model ----
(***************************************************************************)
(* Model of run_pointnet.py: the training driver main() and the evaluation *)
(* routine evaluate_model() with visualize_predictions().                  *)
(*                                                                         *)
(* The network, the loss function, the dataset class, the batch loader,    *)
(* the metric functions and the plotting calls are collaborators imported  *)
(* by the script.  Their results enter the model as inputs drawn from      *)
(* small sets (class scores per point, true labels per point, one loss     *)
(* value per batch); what the script does with them is modelled statement  *)
(* by statement.                                                           *)
(*                                                                         *)
(* Two specifications share the evaluation actions:                        *)
(*   Spec      the whole script, main() from construction to exit;         *)
(*   SpecEval  one call of evaluate_model() on an arbitrary loader.        *)
(***************************************************************************)
EXTENDS Integers, Sequences, FiniteSets

\* ------------------------------------------------------------- bounds
MaxEpoch == 2
MaxBatch == 2
MaxSamples == 3
MaxEvalSet == 1
MaxPoints == 2
MaxCells == 4
MaxLoss == 1

\* ------------------------------------------------------------- values
\* num_class=2: the two segmentation classes, indices of the class dimension.
Classes == {0, 1}

\* Class scores of one point: one score per class, indexed 1..2 for class 0..1.
Scores == {0, 1}
ScorePairs == {<<a, b>> : a \in Scores, b \in Scores}

\* Values loss.item() can take.
LossValues == 0 .. MaxLoss

None == <<>>

Frac(n, d) == [num |-> n, den |-> d]

RECURSIVE SumSeq(_)
SumSeq(s) == IF s = <<>> THEN 0 ELSE Head(s) + SumSeq(Tail(s))

\* [sublist[0] for sublist in lists]: one element per sublist.
ConcatFirsts(lists) == [i \in 1 .. Len(lists) |-> lists[i][1]]

RECURSIVE Concat(_)
\* [x for sublist in lists for x in sublist]
Concat(lists) == IF lists = <<>> THEN <<>> ELSE Head(lists) \o Concat(Tail(lists))

\* All sequences of length n over S.
Arrays(S, n) == [1 .. n -> S]

\* ------------------------------------------------------------- loader
\* DataLoader(dataset, batch_size=B) with drop_last left at its default:
\* the sizes of the batches one iteration over n samples yields.
RECURSIVE BatchSizesDropLast(_, _)
BatchSizesDropLast(n, B) ==
    IF n < B THEN <<>> ELSE <<B>> \o BatchSizesDropLast(n - B, B)

RECURSIVE BatchSizes(_, _)
BatchSizes(n, B) ==
    IF n = 0 THEN <<>>
    ELSE IF n <= B THEN <<n>>
    ELSE <<B>> \o BatchSizes(n - B, B)

\* ------------------------------------------------------------- tensors
\* outputs.argmax(dim=2) for one point: the index of the largest class score,
\* the first one on a tie.
ArgMax(sc) == IF sc[2] > sc[1] THEN 1 ELSE 0

\* argmax over the class dimension of a (samples x points x classes) tensor.
ArgMaxDim2(outputs) ==
    [s \in 1 .. Len(outputs) |-> [p \in 1 .. Len(outputs[s]) |-> ArgMax(outputs[s][p])]]

\* ------------------------------------------------------------- metrics
\* The number of entries of seq equal to c.
Count(seq, c) == Cardinality({i \in 1 .. Len(seq) : seq[i] = c})

\* Every class of the problem, present in the lists or not.
AllLabels(y_true, y_pred) == Classes

\* unique_labels(y_true, y_pred): the labels present in either list.
PresentLabels(y_true, y_pred) ==
    {y_true[i] : i \in 1 .. Len(y_true)} \cup {y_pred[i] : i \in 1 .. Len(y_pred)}

TruePos(y_true, y_pred, c) ==
    Cardinality({i \in 1 .. Len(y_true) : y_true[i] = c /\ y_pred[i] = c})

\* The per-class ratio with no guard on the denominator.
RatioUnguarded(tp, d) == Frac(tp, d)

\* A per-class ratio tp / denominator; 0 when the denominator is 0
\* (zero_division at its default).
Ratio(tp, d) == IF d = 0 THEN Frac(0, 1) ELSE Frac(tp, d)

FracAdd(a, b) == Frac(a.num * b.den + b.num * a.den, a.den * b.den)

RECURSIVE SumFracs(_, _)
SumFracs(S, f) ==
    IF S = {} THEN Frac(0, 1)
    ELSE LET c == CHOOSE x \in S : TRUE
         IN FracAdd(f[c], SumFracs(S \ {c}, f))

\* The unweighted mean of the per-class ratios over the present labels.
MacroAverage(L, f) ==
    LET s == SumFracs(L, f) IN Frac(s.num, s.den * Cardinality(L))

precision_score(y_true, y_pred) ==
    LET L == PresentLabels(y_true, y_pred)
        f == [c \in L |-> Ratio(TruePos(y_true, y_pred, c),
                                Count(y_pred, c))]
    IN MacroAverage(L, f)

recall_score(y_true, y_pred) ==
    LET L == PresentLabels(y_true, y_pred)
        f == [c \in L |-> Ratio(TruePos(y_true, y_pred, c),
                                Count(y_true, c))]
    IN MacroAverage(L, f)

accuracy_score(y_true, y_pred) ==
    Frac(Cardinality({i \in 1 .. Len(y_true) : y_true[i] = y_pred[i]}), Len(y_true))

\* sum(losses) / len(losses) for a non-empty list.
Mean(losses) == Frac(SumSeq(losses), Len(losses))


\* ------------------------------------------------------------- state
Loaders == {"train", "val", "test"}

VARIABLES
    pc,            \* position of the single thread of control
    ret_pc,        \* where evaluate_model returns to
    args,          \* parsed command line: epoch, batch_size, num_points
    sizes,         \* number of samples of the train, val and test datasets
    env,           \* what the collaborators can produce: labels, scores, losses
    epoch,         \* loop variable of the training loop
    j,             \* index of the train batch being processed
    train_it,      \* batches the train loader iteration has still to yield
    cur,           \* the train batch in hand: <<epoch, j>>, or None
    outputs,       \* batch whose forward output is held, or None
    loss,          \* batch whose loss is held, or None
    grad,          \* gradients accumulated in the parameters: a set of batches
    params,        \* the parameter set, as the sequence of updates applied to it
    mode,          \* model.training: "train" or "eval"
    calls,         \* the evaluate_model calls made so far, by loader
    train_metrics, \* train_loss, train_prec, train_recall, train_acc
    val_metrics,   \* val_loss, val_prec, val_recall, val_acc
    test_metrics,  \* test_loss, test_prec, test_recall, test_acc
    stdout,        \* number of metric lines printed
    loader,        \* evaluate_model: the loader argument
    visualize,     \* evaluate_model: the visualize argument
    it,            \* evaluate_model: batches the loader has still to yield
    losses,        \* evaluate_model: losses
    all_labels,    \* evaluate_model: all_labels as accumulated, one array per sample
    all_preds,     \* evaluate_model: all_preds as accumulated, one array per sample
    point_clouds,  \* evaluate_model: point_clouds, one entry per sample
    flat_labels,   \* evaluate_model: all_labels after the flattening rebinds it
    flat_preds,    \* evaluate_model: all_preds after the flattening rebinds it
    metrics,       \* evaluate_model: avg_loss, precision, recall, accuracy
    windows,       \* visualize_predictions: the windows shown so far
    ret,           \* the value evaluate_model returned, or None
    error          \* the exception that ended the process, or ""

mainVars == <<args, sizes, env, epoch, j, train_it, cur, outputs, loss,
              train_metrics, val_metrics, test_metrics, stdout>>
modelVars == <<grad, params, mode>>
evalVars == <<loader, visualize, it, losses, all_labels, all_preds, point_clouds,
              flat_labels, flat_preds, metrics, windows>>
vars == <<pc, ret_pc, calls, ret, error, mainVars, modelVars, evalVars>>

EvalPcs == {"e_enter", "e_loop", "e_vis", "e_ret"}

TrainBodyPcs == {"m_zero_grad", "m_forward", "m_loss", "m_backward", "m_step"}

\* The evaluation frame before evaluate_model is entered.
NoFrame ==
    /\ loader = "test"
    /\ visualize = FALSE
    /\ it = <<>>
    /\ losses = <<>>
    /\ all_labels = <<>>
    /\ all_preds = <<>>
    /\ point_clouds = <<>>
    /\ flat_labels = <<>>
    /\ flat_preds = <<>>
    /\ metrics = None
    /\ windows = <<>>

\* A dataset of n clouds of p points each fits the model's bounds.
Fits(n, p) == n * p <= MaxCells

\* ------------------------------------------------------------- evaluate_model
\* Lines 74-79: model.eval(), the four empty lists, torch.no_grad(), and the
\* start of the iteration over the loader.
EvalEnter ==
    /\ pc = "e_enter"
    /\ mode' = "eval"
    /\ it' = BatchSizes(sizes[loader], args.batch_size)
    /\ losses' = <<>>
    /\ all_labels' = <<>>
    /\ all_preds' = <<>>
    /\ point_clouds' = <<>>
    /\ flat_labels' = <<>>
    /\ flat_preds' = <<>>
    /\ metrics' = None
    /\ windows' = <<>>
    /\ pc' = "e_loop"
    /\ UNCHANGED <<ret_pc, calls, ret, error, mainVars, grad, params, loader, visualize>>

\* One batch of the loop with an optimizer step after it.
EvalBatchUpdating ==
    /\ pc = "e_loop"
    /\ it # <<>>
    /\ LET b == Head(it)
           k == Len(losses) + 1
       IN \E labels \in Arrays(Arrays(env.labels, args.num_points), b),
             outs \in Arrays(Arrays(env.scores, args.num_points), b),
             l \in env.losses :
            /\ losses' = Append(losses, l)
            /\ all_preds' = all_preds \o ArgMaxDim2(outs)
            /\ all_labels' = all_labels \o labels
            /\ point_clouds' = point_clouds \o [r \in 1 .. b |-> <<k, r>>]
    /\ it' = Tail(it)
    /\ params' = Append(params, grad)
    /\ UNCHANGED <<pc, ret_pc, calls, ret, error, mainVars, grad, mode, loader, visualize,
                   flat_labels, flat_preds, metrics, windows>>

\* Lines 80-88, one batch: forward pass, loss, arg-max, and the three extends.
\* extend() on a (samples x points) array appends one row per sample.
EvalBatch ==
    /\ pc = "e_loop"
    /\ it # <<>>
    /\ LET b == Head(it)
           k == Len(losses) + 1
       IN \E labels \in Arrays(Arrays(env.labels, args.num_points), b),
             outs \in Arrays(Arrays(env.scores, args.num_points), b),
             l \in env.losses :
            /\ losses' = Append(losses, l)
            /\ all_preds' = all_preds \o ArgMaxDim2(outs)
            /\ all_labels' = all_labels \o labels
            /\ point_clouds' = point_clouds \o [r \in 1 .. b |-> <<k, r>>]
    /\ it' = Tail(it)
    /\ UNCHANGED <<pc, ret_pc, calls, ret, error, mainVars, modelVars, loader, visualize,
                   flat_labels, flat_preds, metrics, windows>>

\* An empty pass that returns default metrics instead of raising.
EvalEmptyDefault ==
    /\ pc = "e_loop"
    /\ it = <<>>
    /\ losses = <<>>
    /\ metrics' = <<Frac(0, 1), Frac(0, 1), Frac(0, 1), Frac(0, 1)>>
    /\ pc' = "e_ret"
    /\ UNCHANGED <<ret_pc, calls, ret, error, mainVars, modelVars, loader, visualize, it,
                   losses, all_labels, all_preds, point_clouds, flat_labels, flat_preds,
                   windows>>

\* Line 90 on an empty list: sum([]) / len([]) raises ZeroDivisionError, which
\* nothing catches.
EvalRaise ==
    /\ pc = "e_loop"
    /\ it = <<>>
    /\ losses = <<>>
    /\ error' = "ZeroDivisionError"
    /\ pc' = "aborted"
    /\ UNCHANGED <<ret_pc, calls, ret, mainVars, modelVars, evalVars>>

\* Lines 90-97: the mean loss, the two flattenings and the three scores.
EvalMetrics ==
    /\ pc = "e_loop"
    /\ it = <<>>
    /\ losses # <<>>
    /\ flat_labels' = Concat(all_labels)
    /\ flat_preds' = Concat(all_preds)
    /\ metrics' = <<Mean(losses),
                    precision_score(flat_labels', flat_preds'),
                    recall_score(flat_labels', flat_preds'),
                    accuracy_score(flat_labels', flat_preds')>>
    /\ pc' = IF visualize THEN "e_vis" ELSE "e_ret"
    /\ UNCHANGED <<ret_pc, calls, ret, error, mainVars, modelVars, loader, visualize, it,
                   losses, all_labels, all_preds, point_clouds, windows>>

\* The c argument of a scatter call, as the sequence of values it carries:
\* an element of a flat list carries one.
ColorArg(x) == <<x>>

\* Lines 45-70, one turn of the loop of visualize_predictions(point_clouds,
\* all_labels, all_preds), which line 99 calls with the flattened lists.
ShowWindow ==
    /\ pc = "e_vis"
    /\ Len(windows) < Len(point_clouds)
    /\ LET i == Len(windows) + 1
       IN windows' = Append(windows, [cloud |-> point_clouds[i],
                                      true |-> ColorArg(flat_labels[i]),
                                      pred |-> ColorArg(flat_preds[i])])
    /\ UNCHANGED <<pc, ret_pc, calls, ret, error, mainVars, modelVars, loader, visualize,
                   it, losses, all_labels, all_preds, point_clouds, flat_labels,
                   flat_preds, metrics>>

\* visualize_predictions returns when the loop is over.
VisualizeDone ==
    /\ pc = "e_vis"
    /\ Len(windows) = Len(point_clouds)
    /\ pc' = "e_ret"
    /\ UNCHANGED <<ret_pc, calls, ret, error, mainVars, modelVars, evalVars>>

\* Line 101.
EvalReturn ==
    /\ pc = "e_ret"
    /\ ret' = metrics
    /\ pc' = ret_pc
    /\ UNCHANGED <<ret_pc, calls, error, mainVars, modelVars, evalVars>>

\* ------------------------------------------------------------- one call
\* evaluate_model(model, loader, device, criterion, visualize) about to run on
\* a loader over n clouds, with the model in either mode.
InitEval ==
    /\ pc = "e_enter"
    /\ ret_pc = "done"
    /\ args \in [epoch : {0}, batch_size : 1 .. MaxBatch, num_points : 1 .. MaxPoints]
    /\ \E n \in 0 .. MaxSamples :
         /\ Fits(n, args.num_points)
         /\ sizes = [l \in Loaders |-> IF l = "test" THEN n ELSE 0]
    /\ env = [labels |-> Classes, scores |-> ScorePairs, losses |-> LossValues]
    /\ epoch = 0 /\ j = 0 /\ train_it = <<>>
    /\ cur = None /\ outputs = None /\ loss = None
    /\ grad = {} /\ params = <<>>
    /\ mode \in {"train", "eval"}
    /\ calls = <<"test">>
    /\ train_metrics = None /\ val_metrics = None /\ test_metrics = None
    /\ stdout = 0
    /\ loader = "test"
    /\ visualize \in BOOLEAN
    /\ it = <<>> /\ losses = <<>> /\ all_labels = <<>> /\ all_preds = <<>>
    /\ point_clouds = <<>> /\ flat_labels = <<>> /\ flat_preds = <<>>
    /\ metrics = None /\ windows = <<>>
    /\ ret = None
    /\ error = ""

NextEval ==
    \/ EvalEnter
    \/ EvalBatch
    \/ EvalRaise
    \/ EvalMetrics
    \/ ShowWindow
    \/ VisualizeDone
    \/ EvalReturn

SpecEval == InitEval /\ [][NextEval]_vars


\* ------------------------------------------------------------- main
\* Line 123: the head of the training loop, for epoch in range(args.epoch).
EpochHead ==
    /\ pc = "m_epoch"
    /\ pc' = IF epoch < args.epoch THEN "m_train" ELSE "m_test"
    /\ UNCHANGED <<ret_pc, calls, ret, error, mainVars, modelVars, evalVars>>

\* Line 124 without its effect: the mode is left as it is.
ModelTrainSkipped ==
    /\ pc = "m_train"
    /\ train_it' = BatchSizes(sizes["train"], args.batch_size)
    /\ j' = -1
    /\ pc' = "m_batch"
    /\ UNCHANGED <<ret_pc, calls, ret, error, args, sizes, env, epoch, cur, outputs, loss,
                   train_metrics, val_metrics, test_metrics, stdout, grad, params, mode,
                   evalVars>>

\* Line 124, model.train(), and the start of the iteration of line 125.
ModelTrain ==
    /\ pc = "m_train"
    /\ mode' = "train"
    /\ train_it' = BatchSizes(sizes["train"], args.batch_size)
    /\ j' = -1
    /\ pc' = "m_batch"
    /\ UNCHANGED <<ret_pc, calls, ret, error, args, sizes, env, epoch, cur, outputs, loss,
                   train_metrics, val_metrics, test_metrics, stdout, grad, params,
                   evalVars>>

\* Lines 125-126: the next batch of the train loader, or the end of the loop.
NextBatch ==
    /\ pc = "m_batch"
    /\ IF train_it # <<>>
       THEN /\ j' = j + 1
            /\ cur' = <<epoch, j'>>
            /\ train_it' = Tail(train_it)
            /\ pc' = "m_zero_grad"
       ELSE /\ pc' = "m_eval_train"
            /\ UNCHANGED <<j, cur, train_it>>
    /\ UNCHANGED <<ret_pc, calls, ret, error, args, sizes, env, epoch, outputs, loss,
                   train_metrics, val_metrics, test_metrics, stdout, modelVars, evalVars>>

\* Line 127 without its effect: the accumulated gradients are kept.
ZeroGradSkipped ==
    /\ pc = "m_zero_grad"
    /\ pc' = "m_forward"
    /\ UNCHANGED <<ret_pc, calls, ret, error, mainVars, modelVars, evalVars>>

\* Line 127: optimizer.zero_grad().
ZeroGrad ==
    /\ pc = "m_zero_grad"
    /\ grad' = {}
    /\ pc' = "m_forward"
    /\ UNCHANGED <<ret_pc, calls, ret, error, mainVars, params, mode, evalVars>>

\* Lines 128-130: the forward pass on the batch in hand.
Forward ==
    /\ pc = "m_forward"
    /\ outputs' = cur
    /\ pc' = "m_loss"
    /\ UNCHANGED <<ret_pc, calls, ret, error, args, sizes, env, epoch, j, train_it, cur,
                   loss, train_metrics, val_metrics, test_metrics, stdout, modelVars,
                   evalVars>>

\* Lines 131-132: the loss of the outputs held.
Loss ==
    /\ pc = "m_loss"
    /\ loss' = outputs
    /\ pc' = "m_backward"
    /\ UNCHANGED <<ret_pc, calls, ret, error, args, sizes, env, epoch, j, train_it, cur,
                   outputs, train_metrics, val_metrics, test_metrics, stdout, modelVars,
                   evalVars>>

\* Line 133: loss.backward() adds the gradient of the loss held to what the
\* parameters have accumulated.
Backward ==
    /\ pc = "m_backward"
    /\ grad' = grad \cup {loss}
    /\ pc' = "m_step"
    /\ UNCHANGED <<ret_pc, calls, ret, error, mainVars, params, mode, evalVars>>

\* Line 134: optimizer.step() updates the parameters from the accumulated
\* gradients.
Step ==
    /\ pc = "m_step"
    /\ params' = Append(params, grad)
    /\ pc' = "m_batch"
    /\ UNCHANGED <<ret_pc, calls, ret, error, mainVars, grad, mode, evalVars>>

\* A call evaluate_model(model, l, device, criterion) that returns to r.
Call(l, r) ==
    /\ loader' = l
    /\ visualize' = FALSE
    /\ calls' = Append(calls, l)
    /\ ret_pc' = r
    /\ pc' = "e_enter"
    /\ UNCHANGED <<ret, error, mainVars, modelVars, it, losses, all_labels, all_preds,
                   point_clouds, flat_labels, flat_preds, metrics, windows>>

\* Line 137 with the wrong loader.
CallEvalValOnTest ==
    /\ pc = "m_eval_val"
    /\ Call("test", "m_ret_val")

\* Line 136, the call.
CallEvalTrain ==
    /\ pc = "m_eval_train"
    /\ Call("train", "m_ret_train")

\* Line 136, the assignment of the returned tuple.
AssignTrain ==
    /\ pc = "m_ret_train"
    /\ train_metrics' = ret
    /\ pc' = "m_eval_val"
    /\ UNCHANGED <<ret_pc, calls, ret, error, args, sizes, env, epoch, j, train_it, cur,
                   outputs, loss, val_metrics, test_metrics, stdout, modelVars, evalVars>>

\* Line 137, the call.
CallEvalVal ==
    /\ pc = "m_eval_val"
    /\ Call("val", "m_ret_val")

\* Line 137, the assignment of the returned tuple.
AssignVal ==
    /\ pc = "m_ret_val"
    /\ val_metrics' = ret
    /\ pc' = "m_print"
    /\ UNCHANGED <<ret_pc, calls, ret, error, args, sizes, env, epoch, j, train_it, cur,
                   outputs, loss, train_metrics, test_metrics, stdout, modelVars, evalVars>>

\* Lines 138-141: the two metric lines of the epoch; the loop goes on.
PrintEpoch ==
    /\ pc = "m_print"
    /\ stdout' = stdout + 2
    /\ epoch' = epoch + 1
    /\ pc' = "m_epoch"
    /\ UNCHANGED <<ret_pc, calls, ret, error, args, sizes, env, j, train_it, cur,
                   outputs, loss, train_metrics, val_metrics, test_metrics, modelVars,
                   evalVars>>

\* Line 144, the call.
CallEvalTest ==
    /\ pc = "m_test"
    /\ Call("test", "m_ret_test")

\* Line 144, the assignment of the returned tuple.
AssignTest ==
    /\ pc = "m_ret_test"
    /\ test_metrics' = ret
    /\ pc' = "m_print_test"
    /\ UNCHANGED <<ret_pc, calls, ret, error, args, sizes, env, epoch, j, train_it, cur,
                   outputs, loss, train_metrics, val_metrics, stdout, modelVars, evalVars>>

\* Lines 145-146: the test metric line; main returns and the process exits.
PrintTest ==
    /\ pc = "m_print_test"
    /\ stdout' = stdout + 1
    /\ pc' = "done"
    /\ UNCHANGED <<ret_pc, calls, ret, error, args, sizes, env, epoch, j, train_it, cur,
                   outputs, loss, train_metrics, val_metrics, test_metrics, modelVars,
                   evalVars>>

\* Lines 104-120: the state when the training loop is reached.  The model is
\* freshly constructed (training mode, no gradients, no update applied).  The
\* collaborators of a run produce one label value, one score pair and one loss
\* value; SpecEval explores arbitrary data.  The train dataset is not empty:
\* the epoch's evaluation of an empty train loader would end the run at once.
Init ==
    /\ pc = "m_epoch"
    /\ ret_pc = "done"
    /\ args \in [epoch : 0 .. MaxEpoch, batch_size : 1 .. MaxBatch,
                 num_points : 1 .. MaxPoints]
    /\ sizes \in [Loaders -> 0 .. MaxSamples]
    /\ sizes["train"] >= 1
    /\ sizes["val"] <= MaxEvalSet
    /\ sizes["test"] <= MaxEvalSet
    /\ \A l \in Loaders : Fits(sizes[l], args.num_points)
    /\ env \in [labels : {{c} : c \in Classes},
                scores : {{s} : s \in ScorePairs},
                losses : {{l} : l \in LossValues}]
    /\ epoch = 0 /\ j = -1 /\ train_it = <<>>
    /\ cur = None /\ outputs = None /\ loss = None
    /\ grad = {} /\ params = <<>>
    /\ mode = "train"
    /\ calls = <<>>
    /\ train_metrics = None /\ val_metrics = None /\ test_metrics = None
    /\ stdout = 0
    /\ NoFrame
    /\ ret = None
    /\ error = ""

Next ==
    \/ EpochHead
    \/ ModelTrain
    \/ NextBatch
    \/ ZeroGrad
    \/ Forward
    \/ Loss
    \/ Backward
    \/ Step
    \/ CallEvalTrain
    \/ AssignTrain
    \/ CallEvalVal
    \/ AssignVal
    \/ PrintEpoch
    \/ CallEvalTest
    \/ AssignTest
    \/ PrintTest
    \/ EvalEnter
    \/ EvalBatch
    \/ EvalRaise
    \/ EvalMetrics
    \/ EvalReturn

Spec == Init /\ [][Next]_vars


\* ------------------------------------------------------------- properties
IsRatio(f) == f.den > 0 /\ 0 <= f.num /\ f.num <= f.den

IsOne(f) == f.den > 0 /\ f.num = f.den

\* The call of SpecEval has returned to its caller.
Returned == pc = "done" /\ ret_pc = "done" /\ error = ""

\* The flattened lists exist: line 93 has run.
Flattened == pc \in {"e_vis", "e_ret"} \/ Returned

\* C1: when the loader yields no batch, evaluate_model ends in a
\* ZeroDivisionError and returns nothing: no metric is computed, no value is
\* handed to the caller.
C1_EmptyPassRaises ==
    (Len(BatchSizes(sizes[loader], args.batch_size)) = 0 /\ pc \notin {"e_enter", "e_loop"})
        => /\ pc = "aborted"
           /\ error = "ZeroDivisionError"
           /\ metrics = None
           /\ ret = None

C1_Witness ==
    /\ pc = "aborted"
    /\ sizes[loader] = 0
    /\ error = "ZeroDivisionError"
    /\ ret = None

\* C2: on a loader that yields at least one batch, evaluate_model raises
\* nothing and returns four numbers: a mean loss >= 0 and a precision, a
\* recall and an accuracy in [0, 1], whatever the labels and the predictions
\* are (a class absent from either included).
C2_MetricsInRange ==
    sizes[loader] >= 1
        => /\ error = ""
           /\ pc # "aborted"
           /\ Returned
                => /\ Len(ret) = 4
                   /\ ret[1].den > 0 /\ ret[1].num >= 0
                   /\ \A k \in 2 .. 4 : IsRatio(ret[k])

\* A returned pass in which class 1 is labelled but never predicted.
C2_Witness ==
    /\ Returned
    /\ \E i \in 1 .. Len(flat_labels) : flat_labels[i] = 1
    /\ \A i \in 1 .. Len(flat_preds) : flat_preds[i] = 0
    /\ ret[2].num < ret[2].den
    /\ ret[1].num > 0

\* C3: when every predicted label equals the true label of its point, the
\* macro precision, the macro recall and the accuracy returned are all 1.
C3_PerfectPass ==
    (Returned /\ all_preds = all_labels)
        => IsOne(ret[2]) /\ IsOne(ret[3]) /\ IsOne(ret[4])

\* A perfect pass over data of one class only.
C3_Witness ==
    /\ Returned
    /\ all_preds = all_labels
    /\ Len(flat_labels) >= 2
    /\ \A i \in 1 .. Len(flat_labels) : flat_labels[i] = 0
    /\ IsOne(ret[2])

\* The points of the first batch of the pass.
PointsPerBatch ==
    Cardinality({i \in 1 .. Len(point_clouds) : point_clouds[i][1] = 1}) * args.num_points

C6_WindowPerSample ==
    (Returned /\ visualize)
        => /\ Len(windows) = Len(point_clouds)
           /\ \A i \in 1 .. Len(windows) :
                /\ windows[i].cloud = point_clouds[i]
                /\ windows[i].true = all_labels[i]
                /\ windows[i].pred = all_preds[i]

\* ceil(n / b)
CeilDiv(n, b) == (n + b - 1) \div b

\* The training loop of the current epoch is over and its evaluations run.
AfterTraining ==
    \/ pc \in {"m_eval_train", "m_ret_train", "m_eval_val", "m_ret_val", "m_print"}
    \/ pc \in EvalPcs /\ loader # "test"

\* No epoch is in progress.
BetweenEpochs ==
    \/ pc \in {"m_epoch", "m_train", "m_test", "m_ret_test", "m_print_test", "done"}
    \/ pc \in EvalPcs /\ loader = "test"

\* C4: an epoch over N clouds in batches of B makes ceil(N/B) optimizer
\* updates, the last partial batch included, and the evaluations add none.
C4_UpdatesPerEpoch ==
    LET n == CeilDiv(sizes["train"], args.batch_size)
    IN /\ AfterTraining => Len(params) = (epoch + 1) * n
       /\ BetweenEpochs => Len(params) = epoch * n

\* The first epoch over 3 clouds in batches of 2 is trained and evaluated.
C4_Witness ==
    /\ pc = "m_print"
    /\ epoch = 0
    /\ sizes["train"] = 3
    /\ args.batch_size = 2
    /\ Len(params) = 2

RECURSIVE Schedule(_)
\* The evaluate_model calls of k epochs.
Schedule(k) == IF k = 0 THEN <<>> ELSE Schedule(k - 1) \o <<"train", "val">>

IsPrefix(s, t) == Len(s) <= Len(t) /\ s = SubSeq(t, 1, Len(s))

\* C7: each epoch trains over all its batches, then evaluates the train
\* loader, then the validation loader; the next epoch starts after both; the
\* test loader is evaluated once, after the last epoch; a run that completes
\* has made 2E + 1 calls and goes no further.
C7_LinearPass ==
    /\ IsPrefix(calls, Schedule(args.epoch) \o <<"test">>)
    /\ epoch <= args.epoch
    /\ pc \in {"m_epoch", "m_train", "m_batch"} \cup TrainBodyPcs
         => calls = Schedule(epoch)
    /\ pc \in {"m_train", "m_batch"} \cup TrainBodyPcs => epoch < args.epoch
    /\ pc = "m_eval_train" => calls = Schedule(epoch) /\ train_it = <<>>
    /\ pc \in {"m_ret_train", "m_eval_val"} => calls = Schedule(epoch) \o <<"train">>
    /\ pc \in {"m_ret_val", "m_print"} => calls = Schedule(epoch + 1)
    /\ pc = "m_test" => calls = Schedule(args.epoch) /\ epoch = args.epoch
    /\ pc \in {"m_ret_test", "m_print_test", "done"}
         => calls = Schedule(args.epoch) \o <<"test">> /\ epoch = args.epoch
    /\ pc \in EvalPcs => calls # <<>> /\ calls[Len(calls)] = loader
    /\ pc = "done" => Len(calls) = 2 * args.epoch + 1 /\ ~ENABLED Next

C7_Witness ==
    /\ pc = "done"
    /\ args.epoch = 2
    /\ calls = <<"train", "val", "train", "val", "test">>

\* The batches of one epoch.
BatchesPerEpoch == Len(BatchSizes(sizes["train"], args.batch_size))

\* The k-th batch the training loop reads, counting from 1 over all epochs.
NthBatch(k) == <<(k - 1) \div BatchesPerEpoch, (k - 1) % BatchesPerEpoch>>

\* C8: each batch is taken through clear gradients, forward, loss, backward,
\* step in that order: the gradients are empty when a backward pass starts,
\* the step that follows applies the gradient of that batch alone, and every
\* batch read so far has had its step when the next one is read.
C8_BatchOrder ==
    /\ pc \in {"m_forward", "m_loss", "m_backward"} => grad = {}
    /\ pc \in {"m_loss", "m_backward", "m_step"} => outputs = cur
    /\ pc \in {"m_backward", "m_step"} => loss = cur
    /\ pc = "m_step" => grad = {cur}
    /\ pc \in TrainBodyPcs => Len(params) = epoch * BatchesPerEpoch + j
    /\ pc = "m_batch" => Len(params) = epoch * BatchesPerEpoch + j + 1
    /\ \A k \in 1 .. Len(params) : params[k] = {NthBatch(k)}

\* The step of the second batch of the second epoch is about to run.
C8_Witness ==
    /\ pc = "m_step"
    /\ cur = <<1, 1>>
    /\ grad = {<<1, 1>>}
    /\ Len(params) = 3

\* C9: nothing evaluate_model does changes the parameters or their
\* gradients; they change in the training loop only.
C9_EvalFrame ==
    [][(params' # params \/ grad' # grad) => pc \in {"m_zero_grad", "m_backward", "m_step"}]_vars

\* evaluate_model has returned to a caller whose model has been trained.
C9_Witness ==
    /\ pc = "m_ret_val"
    /\ Len(params) >= 2
    /\ ret # None

\* C10: a training batch is processed in training mode and an evaluation
\* batch in inference mode, in every epoch; evaluate_model returns with the
\* model in inference mode.
C10_Modes ==
    /\ pc \in {"m_batch"} \cup TrainBodyPcs => mode = "train"
    /\ pc \in {"e_loop", "e_ret", "m_ret_train", "m_ret_val", "m_ret_test", "m_train"} /\ calls # <<>>
         => mode = "eval"

\* The forward pass of a batch of the second epoch, after two evaluations.
C10_Witness ==
    /\ pc = "m_forward"
    /\ epoch = 1
    /\ Len(calls) = 2
    /\ mode = "train"

====
